---- MODULE Spec2Model ----
(***************************************************************************)
(* A model of SyncthingAPI (src/SyncthingAPI.py): the REST client of the   *)
(* Syncthing daemon used for selective sync.  The daemon is the            *)
(* environment: it holds one ignore list per folder, an index (a tree of   *)
(* files and directories) and a version, and answers every request with a  *)
(* status code.  Strings that the code slices or prefix-matches are        *)
(* sequences of one-character strings.                                     *)
(***************************************************************************)
EXTENDS Integers, Sequences, FiniteSets, TLC

VARIABLES
    stored,              \* daemon: folder id -> the "ignore" value of db/ignores
    daemonVersion,       \* daemon: the version string of svc/report
    tree,                \* daemon: the index that db/browse and db/file serve
    localDb,             \* daemon: path -> the "local" record of db/file
    api_version,         \* self.api_version
    ignoreSelectiveList, \* self._ignoreSelectiveList
    ignoreListCache,     \* the lru_cache of getIgnoreList, keyed by fid
    fileInfoCache,       \* the lru_cache of getFileInfoExtended, keyed by fid, fn
    last,                \* the last call: its arguments, requests and outcome
    cleared,             \* history: clearCache has been called
    normOld,             \* history: last browseFolder result from a nested map
    normNew,             \* history: last browseFolder result from a node list
    items                \* the node list handed to extendDirSizes, and its result

vars == <<stored, daemonVersion, tree, localDb, api_version, ignoreSelectiveList,
          ignoreListCache, fileInfoCache, last, cleared, normOld, normNew, items>>

-----------------------------------------------------------------------------
(* Strings *)

\* '//* Selective sync (generated by pyselective) *//', abbreviated
headerSelectStart == <<"/", "/", "*", "S", "*", "/", "/">>
\* '//* ignore all except selected *//', abbreviated
headerSelectFinish == <<"/", "/", "*", "i", "*", "/", "/">>

NL == <<"\n">>
Blank == <<" ">>
Whitespace == {" ", "\n", "\t"}

\* s.strip() == ''
StripIsEmpty(s) == \A i \in 1..Len(s) : s[i] \in Whitespace

\* s.startswith(p)
StartsWith(s, p) == Len(p) =< Len(s) /\ SubSeq(s, 1, Len(p)) = p

\* l.count(x)
Count(l, x) == Cardinality({i \in 1..Len(l) : l[i] = x})

\* l.index(x), 1-based; only used where Count(l, x) > 0
Index(l, x) == CHOOSE i \in 1..Len(l) : l[i] = x /\ \A j \in 1..(i-1) : l[j] # x

\* x in l
Contains(l, x) == \E i \in 1..Len(l) : l[i] = x

\* s[1:]
DropFirst(s) == IF s = <<>> THEN <<>> ELSE Tail(s)

\* path + '/' + name, and name alone under the root
JoinPath(path, name) == IF path = <<>> THEN name ELSE path \o <<"/">> \o name

-----------------------------------------------------------------------------
(* Outcomes of a call *)

Return(v) == [kind |-> "return", exc |-> "", value |-> v]
Raise(e) == [kind |-> "raise", exc |-> e, value |-> <<>>]

Forbidden == "Forbidden, api token can be wrong"

EmptyDict == <<>>

StatusCodes == {200, 403, 404, 500, 502}

\* _getRequest: the mapping of the status code of a GET to a result
_getRequest(status, body) ==
    IF status = 200 THEN Return(body)
    ELSE IF status = 403 THEN Raise(Forbidden)
    ELSE IF status = 404 THEN Return(EmptyDict)
    ELSE IF status = 500 THEN Raise("Internal Server Error")
    ELSE Raise("Wrong status code")

Get(st) == [m |-> "GET", s |-> st]
Post(st) == [m |-> "POST", s |-> st]

-----------------------------------------------------------------------------
(* Versions *)

Digits == <<"0", "1", "2", "3", "4", "5", "6", "7", "8", "9">>

\* s.replace("v", "")
RemoveV(s) == SelectSeq(s, LAMBDA c : c # "v")

\* s.split("."): the parts between the dots
RECURSIVE SplitAt(_, _, _)
SplitAt(s, sep, cur) ==
    IF s = <<>> THEN <<cur>>
    ELSE IF Head(s) = sep THEN <<cur>> \o SplitAt(Tail(s), sep, <<>>)
    ELSE SplitAt(Tail(s), sep, Append(cur, Head(s)))

Split(s, sep) == SplitAt(s, sep, <<>>)

\* int(part) raises ValueError unless the part is a decimal numeral
IsInt(part) == part # <<>> /\ \A i \in 1..Len(part) : Contains(Digits, part[i])

RECURSIVE IntOf(_, _)
IntOf(part, acc) ==
    IF part = <<>> THEN acc
    ELSE IntOf(Tail(part), acc * 10 + (Index(Digits, Head(part)) - 1))

\* verStr2Num raises (IndexError, ValueError) on a string that is not x.y.z
verStr2NumOk(s) ==
    LET l == Split(RemoveV(s), ".")
    IN  Len(l) >= 3 /\ \A i \in 1..3 : IsInt(l[i])

verStr2Num(s) ==
    LET l == Split(RemoveV(s), ".")
    IN  (IntOf(l[1], 0) * 100 + IntOf(l[2], 0)) * 100 + IntOf(l[3], 0)

\* the string "1.14.0" of _refineBrowseFolderRequest
ThresholdVersion == <<"1", ".", "1", "4", ".", "0">>

V1_13_1 == <<"v", "1", ".", "1", "3", ".", "1">>
V1_14_0 == <<"v", "1", ".", "1", "4", ".", "0">>
V0_14_52 == <<"v", "0", ".", "1", "4", ".", "5", "2">>
V1_20_4 == <<"v", "1", ".", "2", "0", ".", "4">>

\* the daemon serves the nested map before 1.14.0 and the node list from it on
ServesList(ver) == verStr2Num(ver) >= verStr2Num(ThresholdVersion)

-----------------------------------------------------------------------------
(* The daemon's index and the two encodings of db/browse *)

TypeFile == "FILE_INFO_TYPE_FILE"
TypeDirectory == "FILE_INFO_TYPE_DIRECTORY"

File(name) == [name |-> name, dir |-> FALSE, children |-> <<>>]
Dir(name, children) == [name |-> name, dir |-> TRUE, children |-> children]

\* the folder every specification but SpecTree browses: a/ { b/ { c }, d }
FolderTree ==
    <<Dir(<<"a">>, <<Dir(<<"b">>, <<File(<<"c">>)>>), File(<<"d">>)>>)>>

\* the entries of the directory at parts (a sequence of names), <<>> if absent
RECURSIVE EntriesAt(_, _)
EntriesAt(t, parts) ==
    IF parts = <<>> THEN t
    ELSE LET hit == {i \in 1..Len(t) : t[i].name = Head(parts) /\ t[i].dir}
         IN  IF hit = {} THEN <<>>
             ELSE EntriesAt(t[CHOOSE i \in hit : TRUE].children, Tail(parts))

PathParts(path) == IF path = <<>> THEN <<>> ELSE Split(path, "/")

\* levels=lev: directories below depth lev are served without their content
RECURSIVE CutLevels(_, _)
CutLevels(t, lev) ==
    IF t = <<>> THEN <<>>
    ELSE LET e == Head(t)
         IN  <<IF ~e.dir THEN e
               ELSE IF lev = 0 THEN Dir(e.name, <<>>)
               ELSE Dir(e.name, CutLevels(e.children, lev - 1))>>
             \o CutLevels(Tail(t), lev)

\* before 1.14.0: a mapping name -> (mapping | [modTime, size]), in index order
RECURSIVE EncMap(_)
EncMap(t) ==
    IF t = <<>> THEN <<>>
    ELSE LET e == Head(t)
         IN  <<[key |-> e.name,
                val |-> IF e.dir THEN [isdict |-> TRUE, d |-> EncMap(e.children)]
                        ELSE [isdict |-> FALSE, d |-> <<>>]]>>
             \o EncMap(Tail(t))

\* from 1.14.0 on: a list of nodes name, modTime, size, type and, for a
\* directory, children
RECURSIVE EncList(_)
EncList(t) ==
    IF t = <<>> THEN <<>>
    ELSE LET e == Head(t)
         IN  <<IF e.dir
               THEN [name |-> e.name, modTime |-> "t", size |-> 128,
                     type |-> TypeDirectory, children |-> EncList(e.children)]
               ELSE [name |-> e.name, modTime |-> "t", size |-> 1,
                     type |-> TypeFile]>>
             \o EncList(Tail(t))

\* the JSON body of db/browse; fmt is the Python type json.loads gives it
BrowseBody(ver, t) ==
    IF ServesList(ver) THEN [fmt |-> "list", data |-> EncList(t)]
    ELSE [fmt |-> "dict", data |-> EncMap(t)]

\* the conversion with rv passed on in place of rv[-1]['children']: the
\* entries of a directory land next to it
RECURSIVE RefineDict_Flat(_, _)
RefineDict_Flat(d, rv) ==
    IF d = <<>> THEN rv
    ELSE LET key == Head(d).key
             val == Head(d).val
         IN  IF val.isdict
             THEN RefineDict_Flat(Tail(d),
                      RefineDict_Flat(val.d,
                          Append(rv, [name |-> key, type |-> TypeDirectory,
                                      children |-> <<>>])))
             ELSE RefineDict_Flat(Tail(d), Append(rv, [name |-> key, type |-> TypeFile]))

\* _refineBrowseFolderRequest.  d is a browse body or the {} of a 404.
\* Iterating a list as if it were a mapping raises TypeError at d[key].
RECURSIVE RefineDict(_, _)
RefineDict(d, rv) ==
    IF d = <<>> THEN rv
    ELSE LET key == Head(d).key
             val == Head(d).val
         IN  IF val.isdict
             THEN RefineDict(Tail(d),
                      Append(rv, [name |-> key, type |-> TypeDirectory,
                                  children |-> RefineDict(val.d, <<>>)]))
             ELSE RefineDict(Tail(d), Append(rv, [name |-> key, type |-> TypeFile]))

_refineBrowseFolderRequest(ver, d) ==
    IF ver >= verStr2Num(ThresholdVersion)
    THEN Return(IF DOMAIN d = {} THEN d ELSE d.data)
    ELSE IF DOMAIN d = {} THEN Return(<<>>)
    ELSE IF d.fmt = "dict" THEN Return(RefineDict(d.data, <<>>))
    ELSE IF d.data = <<>> THEN Return(<<>>)
    ELSE Raise("TypeError")

-----------------------------------------------------------------------------
(* The ignore-block codec *)

Folders == {"f1", "f2"}

Lines(l) == [null |-> FALSE, lines |-> l]
Null == [null |-> TRUE, lines |-> <<>>]

StoredLines(ign) == IF ign.null THEN <<>> ELSE ign.lines

NoEntry == [has |-> FALSE, val |-> <<>>]
Entry(v) == [has |-> TRUE, val |-> v]

\* getIgnoreList, with its lru_cache: a hit issues no request, a raise is not
\* cached.  cache is the cache before the call.
getIgnoreList(cache, fid, st) ==
    IF cache[fid].has
    THEN [out |-> Return(cache[fid].val), reqs |-> <<>>, cache |-> cache]
    ELSE LET r == _getRequest(st, [ignore |-> stored[fid]])
         IN  IF r.kind = "raise"
             THEN [out |-> r, reqs |-> <<Get(st)>>, cache |-> cache]
             ELSE IF "ignore" \notin DOMAIN r.value
             THEN [out |-> Raise("KeyError"), reqs |-> <<Get(st)>>, cache |-> cache]
             ELSE LET rv == IF r.value.ignore.null THEN <<>>
                            ELSE r.value.ignore.lines
                  IN  [out |-> Return(rv), reqs |-> <<Get(st)>>,
                       cache |-> [cache EXCEPT ![fid] = Entry(rv)]]

\* as getIgnoreSelective with "and" for "or" in the test of the counts: with
\* one sentinel missing l.index raises ValueError
getIgnoreSelective_AndCounts(cache, fid, st) ==
    LET g == getIgnoreList(cache, fid, st)
        l == g.out.value
    IN  IF g.out.kind = "raise" THEN g
        ELSE IF Count(l, headerSelectStart) = 0 /\ Count(l, headerSelectFinish) = 0
        THEN [g EXCEPT !.out = Return(<<>>)]
        ELSE IF Count(l, headerSelectStart) = 0 \/ Count(l, headerSelectFinish) = 0
        THEN [g EXCEPT !.out = Raise("ValueError")]
        ELSE [g EXCEPT !.out = Return(SubSeq(l, Index(l, headerSelectStart) + 1,
                                                Index(l, headerSelectFinish) - 1))]

getIgnoreSelective(cache, fid, st) ==
    LET g == getIgnoreList(cache, fid, st)
        l == g.out.value
    IN  IF g.out.kind = "raise" THEN g
        ELSE IF Count(l, headerSelectStart) = 0 \/ Count(l, headerSelectFinish) = 0
        THEN [g EXCEPT !.out = Return(<<>>)]
        ELSE [g EXCEPT !.out = Return(SubSeq(l, Index(l, headerSelectStart) + 1,
                                                Index(l, headerSelectFinish) - 1))]

\* lines 146-149 of setIgnoreSelective: what the call makes of il
EnsureTrailingBlank(il) ==
    IF Len(il) > 1 /\ StripIsEmpty(il[Len(il)])
    THEN [il EXCEPT ![Len(il)] = NL]
    ELSE Append(il, NL)

\* _postRequest never looks at the response
_postRequest(status) == Return(<<>>)

NotPosted == [did |-> FALSE, list |-> <<>>]

setIgnoreSelective(cache, fid, il, st, pst) ==
    LET g == getIgnoreList(cache, fid, st)
        l == g.out.value
    IN  IF g.out.kind = "raise"
        THEN [out |-> g.out, reqs |-> g.reqs, cache |-> g.cache,
              posted |-> NotPosted, il |-> il]
        ELSE IF Count(l, headerSelectStart) = 0 \/ Count(l, headerSelectFinish) = 0
        THEN [out |-> Raise("ValueError"), reqs |-> g.reqs, cache |-> g.cache,
              posted |-> NotPosted, il |-> il]
        ELSE LET il2 == EnsureTrailingBlank(il)
                 sendlist == SubSeq(l, 1, Index(l, headerSelectStart)) \o il2
                             \o SubSeq(l, Index(l, headerSelectFinish), Len(l))
             IN  [out |-> _postRequest(pst), reqs |-> g.reqs \o <<Post(pst)>>,
                  cache |-> g.cache,
                  posted |-> [did |-> TRUE, list |-> sendlist], il |-> il2]

\* the daemon stores a posted ignore list when it accepts the request
DaemonStores(pst) == pst = 200

-----------------------------------------------------------------------------
(* Browsing and file information *)

browseWith(cache, fid, body, st, st2) ==
    LET r == _getRequest(st, body)
    IN  IF r.kind = "raise"
        THEN [out |-> r, reqs |-> <<Get(st)>>, cache |-> cache,
              isl |-> ignoreSelectiveList]
        ELSE LET s == getIgnoreSelective(cache, fid, st2)
             IN  IF s.out.kind = "raise"
                 THEN [out |-> s.out, reqs |-> <<Get(st)>> \o s.reqs,
                       cache |-> s.cache, isl |-> ignoreSelectiveList]
                 ELSE [out |-> _refineBrowseFolderRequest(api_version, r.value),
                       reqs |-> <<Get(st)>> \o s.reqs,
                       cache |-> s.cache, isl |-> s.out.value]

browseFolder(cache, fid, st, st2) ==
    browseWith(cache, fid, BrowseBody(daemonVersion, tree), st, st2)

browseFolderPartial(cache, fid, path, lev, st, st2) ==
    browseWith(cache, fid,
               BrowseBody(daemonVersion, CutLevels(EntriesAt(tree, PathParts(path)), lev)),
               st, st2)

\* the entry of the index at a path that exists
RECURSIVE FindEntry(_, _)
FindEntry(t, parts) ==
    LET e == t[CHOOSE i \in 1..Len(t) : t[i].name = Head(parts)]
    IN  IF Len(parts) = 1 THEN e ELSE FindEntry(e.children, Tail(parts))

\* the JSON body of db/file: the global record follows the index, the local
\* record is the daemon's (a directory not present locally has the zero type,
\* FILE_INFO_TYPE_FILE)
FileBody(fn) ==
    LET e == FindEntry(tree, PathParts(fn))
        ty == IF e.dir THEN TypeDirectory ELSE TypeFile
    IN  [local |-> [type |-> IF localDb[fn].present THEN ty ELSE TypeFile,
                    ignored |-> localDb[fn].ignored, invalid |-> FALSE],
         global |-> [type |-> ty, size |-> IF e.dir THEN 128 ELSE 1,
                     modified |-> "t", modifiedBy |-> "dev"],
         availability |-> <<>>]

\* the loop without line 186: an entry below fn sets ispartial and leaves
\* rv['local']['ignored'] as it is
RECURSIVE SelectiveLoop_KeepsIgnored(_, _, _, _, _)
SelectiveLoop_KeepsIgnored(sel, i, fn, ignored, ispartial) ==
    IF i > Len(sel) THEN [ignored |-> ignored, partial |-> ispartial]
    ELSE LET ign == sel[i]
             own == <<"!", "/">> \o fn \o <<"/">>
         IN  IF StartsWith(ign, own)
             THEN [ignored |-> ignored, partial |-> TRUE]
             ELSE IF StartsWith(own, ign \o <<"/">>)
                     /\ ~Contains(sel, DropFirst(ign) \o <<"/", "*", "*">>)
             THEN SelectiveLoop_KeepsIgnored(sel, i + 1, fn, FALSE, FALSE)
             ELSE SelectiveLoop_KeepsIgnored(sel, i + 1, fn, ignored, ispartial)

\* lines 172-193: the loop over the selective list, with its break
RECURSIVE SelectiveLoop(_, _, _, _, _)
SelectiveLoop(sel, i, fn, ignored, ispartial) ==
    IF i > Len(sel) THEN [ignored |-> ignored, partial |-> ispartial]
    ELSE LET ign == sel[i]
             own == <<"!", "/">> \o fn \o <<"/">>
         IN  IF StartsWith(ign, own)
             THEN [ignored |-> FALSE, partial |-> TRUE]
             ELSE IF StartsWith(own, ign \o <<"/">>)
                     /\ ~Contains(sel, DropFirst(ign) \o <<"/", "*", "*">>)
             THEN SelectiveLoop(sel, i + 1, fn, FALSE, FALSE)
             ELSE SelectiveLoop(sel, i + 1, fn, ignored, ispartial)

SelectiveFlags(sel, fn) ==
    IF Contains(sel, <<"!", "/">> \o fn)
    THEN SelectiveLoop(sel, 1, fn, FALSE,
                       Contains(sel, <<"/">> \o fn \o <<"/", "*", "*">>))
    ELSE SelectiveLoop(sel, 1, fn, TRUE, FALSE)

WithFlags(rv, fl) ==
    [rv EXCEPT !.local = [type |-> rv.local.type, invalid |-> rv.local.invalid,
                          ignored |-> fl.ignored, partial |-> fl.partial]]

\* getFileInfoExtended, with its lru_cache keyed by fid and fn; sel is
\* self._ignoreSelectiveList at the time of the call
getFileInfoExtended(fcache, sel, fid, fn, st) ==
    IF fcache[<<fid, fn>>].has
    THEN [out |-> Return(fcache[<<fid, fn>>].val), reqs |-> <<>>,
          fcache |-> fcache, hit |-> TRUE]
    ELSE LET r == _getRequest(st, FileBody(fn))
             rv == r.value
         IN  IF r.kind = "raise"
             THEN [out |-> r, reqs |-> <<Get(st)>>, fcache |-> fcache, hit |-> FALSE]
             ELSE LET res == IF DOMAIN rv # {} /\ rv.local.type = TypeDirectory
                             THEN WithFlags(rv, SelectiveFlags(sel, fn))
                             ELSE rv
                  IN  [out |-> Return(res), reqs |-> <<Get(st)>>,
                       fcache |-> [fcache EXCEPT ![<<fid, fn>>] = Entry(res)],
                       hit |-> FALSE]

getFileInfoRaw(fid, fn, st) == _getRequest(st, FileBody(fn))

\* getVersion: [out, ver] with ver the new self.api_version
getVersion(st) ==
    LET r == _getRequest(st, [version |-> daemonVersion])
    IN  IF r.kind = "raise" THEN [out |-> r, ver |-> api_version]
        ELSE IF "version" \notin DOMAIN r.value
        THEN [out |-> Raise("KeyError"), ver |-> api_version]
        ELSE IF ~verStr2NumOk(r.value.version)
        THEN [out |-> Raise("ValueError"), ver |-> api_version]
        ELSE [out |-> Return(r.value.version), ver |-> verStr2Num(r.value.version)]

StatsBody == [f \in Folders |-> [lastScan |-> "t"]]
ConfigBody == [folders |-> <<[id |-> "f1", label |-> "L1", path |-> "/p1"],
                             [id |-> "f2", label |-> "L2", path |-> "/p2"]>>]

\* getFolderIter: the keys of stats/folder
getFolderIter(st) ==
    LET r == _getRequest(st, StatsBody)
    IN  IF r.kind = "raise" THEN r ELSE Return(DOMAIN r.value)

\* getFoldersDict: [out, reqs]
getFoldersDict(st, st2) ==
    LET dicts == _getRequest(st, StatsBody)
        cfgd == _getRequest(st2, ConfigBody)
        both == <<Get(st), Get(st2)>>
    IN  IF dicts.kind = "raise" THEN [out |-> dicts, reqs |-> <<Get(st)>>]
        ELSE IF cfgd.kind = "raise" THEN [out |-> cfgd, reqs |-> both]
        ELSE IF DOMAIN dicts.value = {} THEN [out |-> Return(dicts.value), reqs |-> both]
        ELSE IF "folders" \notin DOMAIN cfgd.value
        THEN [out |-> Raise("KeyError"), reqs |-> both]
        ELSE LET fs == cfgd.value.folders
                 Of(k) == {i \in 1..Len(fs) : fs[i].id = k}
                 Merge(k) ==
                     IF Of(k) = {} THEN dicts.value[k]
                     ELSE LET f == fs[CHOOSE i \in Of(k) : \A j \in Of(k) : j =< i]
                          IN  [lastScan |-> dicts.value[k].lastScan,
                               label |-> f.label, path |-> f.path]
             IN  [out |-> Return([k \in DOMAIN dicts.value |-> Merge(k)]),
                  reqs |-> both]

-----------------------------------------------------------------------------
(* The calls of the client, one action each *)

NoCall ==
    [op |-> "", fid |-> "", fn |-> <<>>, il |-> <<>>, reqs |-> <<>>,
     kind |-> "", exc |-> "", value |-> <<>>, hit |-> FALSE,
     before |-> Null, posted |-> NotPosted, afterSet |-> NoEntry,
     afterBrowse |-> FALSE, nodes |-> <<>>]

Call(op, fid, fn, reqs, out) ==
    [NoCall EXCEPT !.op = op, !.fid = fid, !.fn = fn, !.reqs = reqs,
                   !.kind = out.kind, !.exc = out.exc, !.value = out.value]

daemonVars == <<daemonVersion, tree, localDb>>
histVars == <<cleared, normOld, normNew, items>>

Call_getFolderIter(st) ==
    /\ last' = Call("getFolderIter", "", <<>>, <<Get(st)>>, getFolderIter(st))
    /\ UNCHANGED <<stored, daemonVars, api_version, ignoreSelectiveList,
                   ignoreListCache, fileInfoCache, histVars>>

Call_getFoldersDict(st, st2) ==
    /\ LET r == getFoldersDict(st, st2)
       IN  last' = Call("getFoldersDict", "", <<>>, r.reqs, r.out)
    /\ UNCHANGED <<stored, daemonVars, api_version, ignoreSelectiveList,
                   ignoreListCache, fileInfoCache, histVars>>

Call_getIgnoreList(fid, st) ==
    /\ LET r == getIgnoreList(ignoreListCache, fid, st)
       IN  /\ last' = [Call("getIgnoreList", fid, <<>>, r.reqs, r.out)
                          EXCEPT !.before = stored[fid]]
           /\ ignoreListCache' = r.cache
    /\ UNCHANGED <<stored, daemonVars, api_version, ignoreSelectiveList,
                   fileInfoCache, histVars>>

\* afterSet: the il of the setIgnoreSelective call on the same folder that
\* came right before, returned, and whose POST the daemon stored
Call_getIgnoreSelective(fid, st) ==
    /\ LET r == getIgnoreSelective(ignoreListCache, fid, st)
           justSet == /\ last.op = "setIgnoreSelective"
                      /\ last.fid = fid
                      /\ last.kind = "return"
                      /\ last.posted.did
                      /\ DaemonStores(last.reqs[Len(last.reqs)].s)
       IN  /\ last' = [Call("getIgnoreSelective", fid, <<>>, r.reqs, r.out)
                          EXCEPT !.before = stored[fid],
                                 !.afterSet = IF justSet THEN Entry(last.il)
                                              ELSE NoEntry]
           /\ ignoreListCache' = r.cache
    /\ UNCHANGED <<stored, daemonVars, api_version, ignoreSelectiveList,
                   fileInfoCache, histVars>>

Call_setIgnoreSelective(fid, il, st, pst) ==
    /\ LET r == setIgnoreSelective(ignoreListCache, fid, il, st, pst)
       IN  /\ last' = [Call("setIgnoreSelective", fid, <<>>, r.reqs, r.out)
                          EXCEPT !.before = stored[fid], !.il = il,
                                 !.posted = r.posted]
           /\ ignoreListCache' = r.cache
           /\ stored' = IF r.posted.did /\ DaemonStores(pst)
                        THEN [stored EXCEPT ![fid] = Lines(r.posted.list)]
                        ELSE stored
    /\ UNCHANGED <<daemonVars, api_version, ignoreSelectiveList,
                   fileInfoCache, histVars>>

BrowseStep(op, fid, path, r) ==
    /\ last' = [Call(op, fid, path, r.reqs, r.out) EXCEPT !.before = stored[fid]]
    /\ ignoreListCache' = r.cache
    /\ ignoreSelectiveList' = r.isl
    /\ UNCHANGED <<stored, daemonVars, api_version, fileInfoCache, cleared, items>>

Call_browseFolder(fid, st, st2) ==
    /\ BrowseStep("browseFolder", fid, <<>>,
                  browseFolder(ignoreListCache, fid, st, st2))
    /\ UNCHANGED <<normOld, normNew>>

Call_browseFolderPartial(fid, path, lev, st, st2) ==
    /\ BrowseStep("browseFolderPartial", fid, path,
                  browseFolderPartial(ignoreListCache, fid, path, lev, st, st2))
    /\ UNCHANGED <<normOld, normNew>>

\* afterBrowse: the call right before was a browse of the same folder that
\* returned
Call_getFileInfoExtended(fid, fn, st) ==
    /\ LET r == getFileInfoExtended(fileInfoCache, ignoreSelectiveList, fid, fn, st)
           justBrowsed == /\ last.op \in {"browseFolder", "browseFolderPartial"}
                          /\ last.fid = fid
                          /\ last.kind = "return"
       IN  /\ last' = [Call("getFileInfoExtended", fid, fn, r.reqs, r.out)
                          EXCEPT !.hit = r.hit, !.afterBrowse = justBrowsed]
           /\ fileInfoCache' = r.fcache
    /\ UNCHANGED <<stored, daemonVars, api_version, ignoreSelectiveList,
                   ignoreListCache, histVars>>

Call_getFileInfoRaw(fid, fn, st) ==
    /\ last' = Call("getFileInfoRaw", fid, fn, <<Get(st)>>,
                    getFileInfoRaw(fid, fn, st))
    /\ UNCHANGED <<stored, daemonVars, api_version, ignoreSelectiveList,
                   ignoreListCache, fileInfoCache, histVars>>

Call_getVersion(st) ==
    /\ LET r == getVersion(st)
       IN  /\ last' = Call("getVersion", "", <<>>, <<Get(st)>>, r.out)
           /\ api_version' = r.ver
    /\ UNCHANGED <<stored, daemonVars, ignoreSelectiveList,
                   ignoreListCache, fileInfoCache, histVars>>

FilePaths == {<<"a">>, <<"a", "/", "b">>, <<"a", "/", "b", "/", "c">>,
              <<"a", "/", "d">>}

\* every path present locally as the index has it, none flagged ignored
LocalInSync == [fn \in FilePaths |-> [present |-> TRUE, ignored |-> FALSE]]

EmptyIgnoreListCache == [f \in Folders |-> NoEntry]
EmptyFileInfoCache == [k \in Folders \X FilePaths |-> NoEntry]

Call_clearCache ==
    /\ ignoreListCache' = EmptyIgnoreListCache
    /\ fileInfoCache' = EmptyFileInfoCache
    /\ cleared' = TRUE
    /\ last' = [NoCall EXCEPT !.op = "clearCache", !.kind = "return"]
    /\ UNCHANGED <<stored, daemonVars, api_version, ignoreSelectiveList,
                   normOld, normNew, items>>

-----------------------------------------------------------------------------
(* Spec: one folder, the daemon answering with any status *)

X == <<"x">>
SelA == <<"!", "/", "a">>

NoResult == [has |-> FALSE, val |-> <<>>]
NoItems == [l |-> <<>>, done |-> FALSE, value |-> 0, completed |-> TRUE,
            sized |-> <<>>]

\* the state of a client just constructed, before any call
ClientInit ==
    /\ api_version = 0
    /\ ignoreSelectiveList = <<>>
    /\ ignoreListCache = EmptyIgnoreListCache
    /\ fileInfoCache = EmptyFileInfoCache
    /\ last = NoCall
    /\ cleared = FALSE
    /\ normOld = NoResult
    /\ normNew = NoResult
    /\ items = NoItems

HttpFolders == {"f1"}
HttpLists == {Lines(<<X, headerSelectStart, headerSelectFinish>>), Null}
HttpIl == {<<>>, <<SelA>>}
HttpPaths == {<<"a">>}

Init ==
    /\ stored \in [Folders -> HttpLists]
    /\ stored["f2"] = Null
    /\ daemonVersion = V1_13_1
    /\ tree = FolderTree
    /\ localDb = LocalInSync
    /\ ClientInit

Next ==
    \/ \E st \in StatusCodes : Call_getFolderIter(st)
    \/ \E st, st2 \in StatusCodes : Call_getFoldersDict(st, st2)
    \/ \E fid \in HttpFolders, st \in StatusCodes : Call_getIgnoreList(fid, st)
    \/ \E fid \in HttpFolders, st \in StatusCodes : Call_getIgnoreSelective(fid, st)
    \/ \E fid \in HttpFolders, il \in HttpIl, st, pst \in StatusCodes :
           Call_setIgnoreSelective(fid, il, st, pst)
    \/ \E fid \in HttpFolders, st, st2 \in StatusCodes : Call_browseFolder(fid, st, st2)
    \/ \E fid \in HttpFolders, st, st2 \in StatusCodes :
           Call_browseFolderPartial(fid, <<"a">>, 1, st, st2)
    \/ \E fid \in HttpFolders, fn \in HttpPaths, st \in StatusCodes :
           Call_getFileInfoExtended(fid, fn, st)
    \/ \E fid \in HttpFolders, fn \in HttpPaths, st \in StatusCodes :
           Call_getFileInfoRaw(fid, fn, st)
    \/ \E st \in StatusCodes : Call_getVersion(st)
    \/ Call_clearCache

Spec == Init /\ [][Next]_vars

-----------------------------------------------------------------------------
(* SpecCodec: the ignore-block codec on one folder whose ignore list is any *)
(* of CodecLists, the daemon answering every request with 200              *)

MaxIlLen == 2

\* no further write is made to an ignore list longer than this
MaxStoredLen == 7

SeqsUpTo(S, n) == UNION {[1..k -> S] : k \in 0..n}

CodecIlLines == {SelA, Blank}
CodecIl == SeqsUpTo(CodecIlLines, MaxIlLen)

CodecLists ==
    {Null,
     Lines(<<>>),
     Lines(<<X>>),
     Lines(<<X, headerSelectStart>>),
     Lines(<<headerSelectFinish, X>>),
     Lines(<<headerSelectStart, headerSelectFinish>>),
     Lines(<<X, headerSelectStart, SelA, NL, headerSelectFinish, X>>),
     Lines(<<X, headerSelectFinish, headerSelectStart>>)}

InitCodec ==
    /\ stored \in [Folders -> CodecLists]
    /\ stored["f2"] = Null
    /\ daemonVersion = V1_14_0
    /\ tree = FolderTree
    /\ localDb = LocalInSync
    /\ ClientInit

NextCodec ==
    \/ Call_getIgnoreList("f1", 200)
    \/ Call_getIgnoreSelective("f1", 200)
    \/ \E il \in CodecIl :
           /\ Len(StoredLines(stored["f1"])) =< MaxStoredLen
           /\ Call_setIgnoreSelective("f1", il, 200, 200)
    \/ Call_clearCache

SpecCodec == InitCodec /\ [][NextCodec]_vars

-----------------------------------------------------------------------------
(* Claims about the HTTP layer and the codec *)

ReadOps == {"getFolderIter", "getFoldersDict", "getIgnoreList", "getIgnoreSelective",
            "browseFolder", "browseFolderPartial", "getFileInfoRaw",
            "getFileInfoExtended", "getVersion"}

IsEmptyResult(c) == IF c.op = "getFolderIter" THEN c.value = {} ELSE DOMAIN c.value = {}

AnsweredOnly(c, status) ==
    c.reqs # <<>> /\ \A i \in 1..Len(c.reqs) : c.reqs[i].s = status

\* C2: a read operation whose GETs the daemon answers with 404 returns an
\* empty structure and raises nothing.
C2_NotFoundYieldsEmpty ==
    (last.op \in ReadOps /\ AnsweredOnly(last, 404))
        => (last.kind = "return" /\ IsEmptyResult(last))

\* C3: a call during which the daemon answers a request (GET or POST) with
\* 403 raises the 'Forbidden, api token can be wrong' error.
C3_ForbiddenAlwaysRaises ==
    (\E i \in 1..Len(last.reqs) : last.reqs[i].s = 403)
        => (last.kind = "raise" /\ last.exc = Forbidden)

\* the normal form the round trip is stated with: a final whitespace-only
\* entry becomes '\n', otherwise '\n' is appended
TrailingBlankEnsured(il) ==
    IF Len(il) > 0 /\ StripIsEmpty(il[Len(il)])
    THEN [il EXCEPT ![Len(il)] = NL]
    ELSE Append(il, NL)

\* C1: getIgnoreSelective(fid) right after a setIgnoreSelective(fid, il) that
\* returned and whose list the daemon stored returns il in normal form (stated
\* here for the stored lists whose start sentinel comes before the finish
\* sentinel, the shape the block is written in).
C1_RoundTrip ==
    (last.op = "getIgnoreSelective" /\ last.kind = "return" /\ last.afterSet.has
        /\ Index(last.before.lines, headerSelectStart)
              < Index(last.before.lines, headerSelectFinish))
        => last.value = TrailingBlankEnsured(last.afterSet.val)

LacksSentinel(ign) ==
    \/ Count(StoredLines(ign), headerSelectStart) = 0
    \/ Count(StoredLines(ign), headerSelectFinish) = 0

\* C6: when the stored ignore list of the folder lacks a sentinel line (or is
\* null or empty) and the daemon serves it, getIgnoreSelective returns the
\* empty selection without raising, and setIgnoreSelective raises, issues no
\* POST and leaves the daemon's list as it was.
C6_MissingSentinel ==
    (LacksSentinel(last.before) /\ \A i \in 1..Len(last.reqs) : last.reqs[i].s = 200)
        => /\ last.op = "getIgnoreSelective"
                => (last.kind = "return" /\ last.value = <<>>)
           /\ last.op = "setIgnoreSelective"
                => /\ last.kind = "raise"
                   /\ ~last.posted.did
                   /\ \A i \in 1..Len(last.reqs) : last.reqs[i].m # "POST"
                   /\ stored[last.fid] = last.before

C6_Witness ==
    /\ last.op = "setIgnoreSelective"
    /\ last.kind = "raise"
    /\ last.reqs = <<Get(200)>>
    /\ ~last.before.null
    /\ Count(last.before.lines, headerSelectStart) > 0
    /\ Count(last.before.lines, headerSelectFinish) = 0

\* the lines outside the managed sub-range of l: up to and including the
\* start sentinel, and from the finish sentinel on; all of l when the finish
\* sentinel does not come after the start sentinel
OutsideBefore(l) == SubSeq(l, 1, Index(l, headerSelectStart))
OutsideAfter(l) ==
    IF Index(l, headerSelectStart) < Index(l, headerSelectFinish)
    THEN SubSeq(l, Index(l, headerSelectFinish), Len(l))
    ELSE SubSeq(l, Index(l, headerSelectStart) + 1, Len(l))

\* C7: the list setIgnoreSelective posts is the stored list with only the
\* interior of the managed sub-range replaced: every line outside it is kept
\* once, in order, and none is added.
C7_OnlyManagedRangeEdited ==
    (last.op = "setIgnoreSelective" /\ last.posted.did /\ ~LacksSentinel(last.before))
        => last.posted.list = OutsideBefore(last.before.lines)
                              \o EnsureTrailingBlank(last.il)
                              \o OutsideAfter(last.before.lines)

-----------------------------------------------------------------------------
(* SpecCache: two folders with different selective blocks, browsed, written *)
(* and queried in any order, the daemon answering every request with 200   *)

CacheIl == {<<>>, <<SelA>>}
CachePaths == {<<"a">>}

InitCache ==
    /\ stored = [f \in Folders |->
                    IF f = "f1"
                    THEN Lines(<<headerSelectStart, headerSelectFinish>>)
                    ELSE Lines(<<headerSelectStart, SelA, NL, headerSelectFinish>>)]
    /\ daemonVersion = V1_13_1
    /\ tree = FolderTree
    /\ localDb = LocalInSync
    /\ ClientInit

NextCache ==
    \/ \E fid \in Folders : Call_browseFolder(fid, 200, 200)
    \/ \E fid \in Folders : Call_browseFolderPartial(fid, <<>>, 0, 200, 200)
    \/ \E fid \in Folders, il \in CacheIl : Call_setIgnoreSelective(fid, il, 200, 200)
    \/ \E fid \in Folders, fn \in CachePaths :
           Call_getFileInfoExtended(fid, fn, 200)
    \/ Call_clearCache

SpecCache == InitCache /\ [][NextCache]_vars

\* the selective block the daemon holds for a folder
CurrentBlock(fid) ==
    LET l == StoredLines(stored[fid])
    IN  IF LacksSentinel(stored[fid]) THEN <<>>
        ELSE SubSeq(l, Index(l, headerSelectStart) + 1,
                       Index(l, headerSelectFinish) - 1)

\* C9: with no clearCache so far, the ignored/partial flags that
\* getFileInfoExtended(fid, fn) returns for a directory are those a fresh
\* computation gives from the current selective block of folder fid (stated
\* here for a call that comes right after a browse of that folder).
C9_CacheCoherent ==
    (/\ last.op = "getFileInfoExtended"
     /\ last.kind = "return"
     /\ DOMAIN last.value # {}
     /\ last.value.local.type = TypeDirectory
     /\ ~cleared
     /\ last.afterBrowse)
        => LET fl == SelectiveFlags(CurrentBlock(last.fid), last.fn)
           IN  /\ last.value.local.ignored = fl.ignored
               /\ last.value.local.partial = fl.partial

-----------------------------------------------------------------------------
(* extendFileInfo *)

\* v[key] = val on a node
Put(v, key, val) == (key :> val) @@ v

\* the exceptions of _getRequest are requests.RequestException; KeyError and
\* TypeError are not
IsRequestException(exc) ==
    exc \in {Forbidden, "Internal Server Error", "Wrong status code"}

\* lines 254-259: the children of the node of contents named like v
RECURSIVE ChildrenFrom(_, _, _)
ChildrenFrom(contents, i, v) ==
    IF i > Len(contents) THEN v
    ELSE IF contents[i].name = v.name
    THEN ChildrenFrom(contents, i + 1,
             Put(v, "children", IF "children" \in DOMAIN contents[i]
                                THEN contents[i].children ELSE <<>>))
    ELSE ChildrenFrom(contents, i + 1, v)

\* lines 269-271: one child v2 counted, e what getFileInfoExtended gave for it
CountOne(acc, e) ==
    IF e.out.kind = "raise"
    THEN [acc EXCEPT !.reqs = acc.reqs \o e.reqs, !.err = e.out.exc]
    ELSE IF "local" \notin DOMAIN e.out.value
    THEN [acc EXCEPT !.fc = e.fcache, !.reqs = acc.reqs \o e.reqs, !.err = "KeyError"]
    ELSE [acc EXCEPT !.fc = e.fcache, !.reqs = acc.reqs \o e.reqs,
                     !.cnt = IF e.out.value.local.ignored = FALSE
                             THEN acc.cnt + 1 ELSE acc.cnt]

\* lines 267-271: the count of the children not ignored, each asked with
\* getFileInfoExtended.  acc = [fc, reqs, err, cnt]
RECURSIVE CountSelected(_, _, _, _, _, _)
CountSelected(sel, fid, base, kids, fst, acc) ==
    IF kids = <<>> \/ acc.err # "" THEN acc
    ELSE CountSelected(sel, fid, base, Tail(kids), fst,
             CountOne(acc, getFileInfoExtended(acc.fc, sel, fid,
                                               JoinPath(base, Head(kids).name), fst)))

\* lines 282-291
SyncStateOf(v, psyncstate) ==
    IF "partial" \in DOMAIN v /\ v.partial THEN "partial"
    ELSE IF ~v.ignored THEN "syncing"
    ELSE IF psyncstate = "syncing" THEN "globalignore"
    ELSE "ignored"

WithSyncState(v, psyncstate) == Put(v, "syncstate", SyncStateOf(v, psyncstate))

\* lines 247-250
WithInfo(v, extd) ==
    Put(Put(Put(Put(v, "size", extd.global.size), "modified", extd.global.modified),
            "ignored", extd.local.ignored),
        "invalid", extd.local.invalid)

\* lines 273-280
WithCount(v, selcnt) ==
    IF selcnt = 0 THEN Put(v, "partial", FALSE)
    ELSE IF selcnt = Len(v.children)
    THEN Put(Put(v, "ignored", FALSE), "partial", FALSE)
    ELSE Put(Put(v, "ignored", FALSE), "partial", TRUE)

\* lines 273-291 once the children are counted (c)
CountedNode(c, v, psyncstate) ==
    IF c.err # "" THEN [fc |-> c.fc, reqs |-> c.reqs, err |-> c.err, v |-> v]
    ELSE [fc |-> c.fc, reqs |-> c.reqs, err |-> "",
          v |-> WithSyncState(WithCount(v, c.cnt), psyncstate)]

\* lines 261-291, v with lines 247-259 done and e what getFileInfoExtended
\* gave for it
FlaggedNode(e, v, sel, fid, base, psyncstate, fst) ==
    IF v.type # TypeDirectory
    THEN [fc |-> e.fcache, reqs |-> e.reqs, err |-> "",
          v |-> WithSyncState(v, psyncstate)]
    ELSE IF "partial" \in DOMAIN e.out.value.local
    THEN [fc |-> e.fcache, reqs |-> e.reqs, err |-> "",
          v |-> WithSyncState(Put(v, "partial", e.out.value.local.partial),
                              psyncstate)]
    ELSE IF "children" \notin DOMAIN v
    THEN [fc |-> e.fcache, reqs |-> e.reqs, err |-> "KeyError", v |-> v]
    ELSE CountedNode(CountSelected(sel, fid, base, v.children, fst,
                         [fc |-> e.fcache, reqs |-> e.reqs, err |-> "", cnt |-> 0]),
                     v, psyncstate)

\* lines 245-291, e what getFileInfoExtended gave for v
AnsweredNode(e, fc, sel, fid, base, v, contents, psyncstate, fst) ==
    IF e.out.kind = "raise"
    THEN [fc |-> fc, reqs |-> e.reqs, err |-> e.out.exc, v |-> v]
    ELSE IF DOMAIN e.out.value = {}
    THEN [fc |-> e.fcache, reqs |-> e.reqs, err |-> "", v |-> v]
    ELSE FlaggedNode(e,
                     IF v.type = TypeDirectory
                     THEN ChildrenFrom(contents, 1, WithInfo(v, e.out.value))
                     ELSE WithInfo(v, e.out.value),
                     sel, fid, base, psyncstate, fst)

\* lines 244-291: the body of the loop for one node v.  [fc, reqs, err, v]
ExtendNode(fc, sel, fid, path, v, contents, psyncstate, fst) ==
    AnsweredNode(getFileInfoExtended(fc, sel, fid, JoinPath(path, v.name), fst),
                 fc, sel, fid, JoinPath(path, v.name), v, contents, psyncstate, fst)

\* the loop goes on with node i done (n)
Extended(acc, i, n) ==
    [fc |-> n.fc, reqs |-> acc.reqs \o n.reqs, err |-> n.err,
     l |-> [acc.l EXCEPT ![i] = n.v]]

\* lines 243-291: the loop over l.  acc = [fc, reqs, err, l]
RECURSIVE ExtendLoop(_, _, _, _, _, _, _, _, _)
ExtendLoop(acc, i, sel, fid, path, contents, psyncstate, fst, l) ==
    IF i > Len(l) \/ acc.err # "" THEN acc
    ELSE ExtendLoop(Extended(acc, i,
                        ExtendNode(acc.fc, sel, fid, path, l[i], contents,
                                   psyncstate, fst)),
                    i + 1, sel, fid, path, contents, psyncstate, fst, l)

\* lines 231-232: the directory i of contents gets what the browse b gave
Forced(acc, i, b) ==
    IF b.out.kind = "raise"
    THEN [acc EXCEPT !.cache = b.cache, !.reqs = acc.reqs \o b.reqs,
                     !.err = b.out.exc]
    ELSE [acc EXCEPT !.cache = b.cache, !.reqs = acc.reqs \o b.reqs,
                     !.contents[i] = Put(acc.contents[i], "children", b.out.value)]

\* lines 229-232 of the recovery: every directory of contents gets the
\* children a browse of it with lev=0 gives.  acc = [cache, reqs, err, contents]
RECURSIVE ForceChildren(_, _, _, _)
ForceChildren(acc, i, fid, path) ==
    IF i > Len(acc.contents) \/ acc.err # "" THEN acc
    ELSE IF acc.contents[i].type # TypeDirectory
    THEN ForceChildren(acc, i + 1, fid, path)
    ELSE ForceChildren(
             Forced(acc, i,
                    browseFolderPartial(acc.cache, fid,
                        JoinPath(path, acc.contents[i].name), 0, 200, 200)),
             i + 1, fid, path)

\* what a call of extendFileInfo leaves: [out, reqs, cache, fcache, isl, l]
ExtendFailed(exc, reqs, cache, fc, isl, l) ==
    [out |-> Raise(exc), reqs |-> reqs, cache |-> cache, fcache |-> fc,
     isl |-> isl, l |-> l]

\* lines 241-291 done (r)
ExtendDone(r, cache, isl) ==
    IF r.err # "" THEN ExtendFailed(r.err, r.reqs, cache, r.fc, isl, r.l)
    ELSE [out |-> Return(<<>>), reqs |-> r.reqs, cache |-> cache,
          fcache |-> r.fc, isl |-> isl, l |-> r.l]

\* lines 241-291
ExtendAll(reqs, cache, fc, isl, contents, l, fid, path, psyncstate, fst) ==
    ExtendDone(ExtendLoop([fc |-> fc, reqs |-> reqs, err |-> "", l |-> l], 1,
                          isl, fid, path, contents, psyncstate, fst, l),
               cache, isl)

\* line 225
FailedItem(name, fldi) ==
    [name |-> name, modTime |-> fldi.global.modified, size |-> fldi.global.size,
     type |-> fldi.global.type]

\* lines 229-291 of the recovery, c what ForceChildren gave
RecoveredForced(c, fcache, isl, l1, fid, path, psyncstate, fst) ==
    IF c.err # "" THEN ExtendFailed(c.err, c.reqs, c.cache, fcache, isl, l1)
    ELSE ExtendAll(c.reqs, c.cache, fcache, isl, c.contents, l1, fid, path,
                   psyncstate, fst)

\* lines 227-291 of the recovery, b0 the browse with lev=0
RecoveredBrowsed(b0, rq, fcache, faileditem, l, fid, path, psyncstate, fst) ==
    IF b0.out.kind = "raise"
    THEN ExtendFailed(b0.out.exc, rq \o b0.reqs, b0.cache, fcache, b0.isl,
                      Append(l, faileditem))
    ELSE RecoveredForced(
             ForceChildren([cache |-> b0.cache, reqs |-> rq \o b0.reqs, err |-> "",
                            contents |-> Append(b0.out.value, faileditem)],
                           1, fid, path),
             fcache, b0.isl, Append(l, faileditem), fid, path, psyncstate, fst)

\* lines 223-291 of the recovery, f what getFileInfoExtended gave for the
\* child the daemon could not find
RecoveredInfo(f, b, child, l, fid, path, psyncstate, fst) ==
    IF f.out.kind = "raise"
    THEN ExtendFailed(f.out.exc, b.reqs \o f.reqs, b.cache, f.fcache, b.isl, l)
    ELSE IF "global" \notin DOMAIN f.out.value
    THEN ExtendFailed("KeyError", b.reqs \o f.reqs, b.cache, f.fcache, b.isl, l)
    ELSE RecoveredBrowsed(browseFolderPartial(b.cache, fid, path, 0, 200, 200),
                          b.reqs \o f.reqs, f.fcache, FailedItem(child, f.out.value),
                          l, fid, path, psyncstate, fst)

\* lines 216-291, b the browse with lev=1.  A 500 whose body names no child
\* leaves str(e).split(...)[1] without an element: IndexError
Browsed(b, fid, l, path, psyncstate, child, fst) ==
    IF b.out.kind = "return"
    THEN ExtendAll(b.reqs, b.cache, fileInfoCache, b.isl, b.out.value, l, fid, path,
                   psyncstate, fst)
    ELSE IF ~IsRequestException(b.out.exc)
    THEN ExtendFailed(b.out.exc, b.reqs, b.cache, fileInfoCache, b.isl, l)
    ELSE IF ~(b.out.exc = "Internal Server Error" /\ child # <<>>)
    THEN ExtendFailed("IndexError", b.reqs, b.cache, fileInfoCache, b.isl, l)
    ELSE RecoveredInfo(getFileInfoExtended(fileInfoCache, b.isl, fid,
                                           JoinPath(path, child), fst),
                       b, child, l, fid, path, psyncstate, fst)

\* extendFileInfo(fid, l, path, psyncstate).  st is the status of the first
\* db/browse and child the name in "could not find child 'name'" of a 500
\* body (<<>> when the body does not say so); the db/browse requests of the
\* recovery are answered with 200, those of db/file with fst.
\* [out, reqs, cache, fcache, isl, l]
extendFileInfo(fid, l, path, psyncstate, st, child, fst) ==
    Browsed(browseFolderPartial(ignoreListCache, fid, path, 1, st, 200),
            fid, l, path, psyncstate, child, fst)

\* the node list the caller holds for the directory at path: what a browse
\* of it gave
NodesAt(path) ==
    _refineBrowseFolderRequest(api_version,
        BrowseBody(daemonVersion, CutLevels(EntriesAt(tree, PathParts(path)), 0)))

ExtendStep(fid, path, r) ==
    /\ last' = [Call("extendFileInfo", fid, path, r.reqs, r.out)
                   EXCEPT !.before = stored[fid], !.nodes = r.l]
    /\ ignoreListCache' = r.cache
    /\ fileInfoCache' = r.fcache
    /\ ignoreSelectiveList' = r.isl
    /\ UNCHANGED <<stored, daemonVars, api_version, histVars>>

Call_extendFileInfo(fid, path, psyncstate, st, child, fst) ==
    /\ NodesAt(path).kind = "return"
    /\ ExtendStep(fid, path,
                  extendFileInfo(fid, NodesAt(path).value, path, psyncstate, st,
                                 child, fst))

-----------------------------------------------------------------------------
(* SpecResolve: one folder whose selective block is any list of up to      *)
(* MaxSelLen of ResolveLines, in any order                                  *)

MaxSelLen == 2

PathA == <<"a">>
PathAB == <<"a", "/", "b">>
PathABC == <<"a", "/", "b", "/", "c">>
PathAD == <<"a", "/", "d">>

Selected(path) == <<"!", "/">> \o path
Content(path) == <<"/">> \o path \o <<"/", "*", "*">>

ResolveLines == {Selected(PathA), Content(PathA), Selected(PathAB), Selected(PathABC)}

\* a is not present locally and flagged ignored, d is flagged ignored
LocalWithoutA ==
    [fn \in FilePaths |->
        IF fn = PathA THEN [present |-> FALSE, ignored |-> TRUE]
        ELSE IF fn = PathAD THEN [present |-> TRUE, ignored |-> TRUE]
        ELSE [present |-> TRUE, ignored |-> FALSE]]

LocalChoices == {LocalInSync, LocalWithoutA}

InitResolve ==
    /\ \E sel \in SeqsUpTo(ResolveLines, MaxSelLen) :
           stored = [f \in Folders |->
                        IF f = "f1"
                        THEN Lines(<<headerSelectStart>> \o sel \o <<headerSelectFinish>>)
                        ELSE Null]
    /\ daemonVersion = V1_14_0
    /\ tree = FolderTree
    /\ localDb \in LocalChoices
    /\ ClientInit

\* the root is extended with the default psyncstate, the directory a with
\* either; the daemon does not know a for one call of the root, and fails to
\* browse a, with or without naming the child b
NextResolve ==
    \/ Call_getVersion(200)
    \/ \E fn \in {PathA, PathAB} : Call_getFileInfoExtended("f1", fn, 200)
    \/ \E fst \in {200, 404} :
           Call_extendFileInfo("f1", <<>>, "unknown", 200, <<>>, fst)
    \/ \E psyncstate \in {"unknown", "syncing"} :
           Call_extendFileInfo("f1", PathA, psyncstate, 200, <<>>, 200)
    \/ \E child \in {<<>>, <<"b">>} :
           Call_extendFileInfo("f1", PathA, "syncing", 500, child, 200)

SpecResolve == InitResolve /\ [][NextResolve]_vars

\* the directories above fn
Ancestors(fn) == {SubSeq(fn, 1, i - 1) : i \in {j \in 1..Len(fn) : fn[j] = "/"}}

FullySelected(sel, anc) == Contains(sel, Selected(anc)) /\ ~Contains(sel, Content(anc))

IsDirectoryInfo(c) ==
    /\ c.op = "getFileInfoExtended"
    /\ c.kind = "return"
    /\ DOMAIN c.value # {}
    /\ c.value.local.type = TypeDirectory

\* C8: when getFileInfoExtended computes the flags of a directory fn and some
\* directory above fn is on the selective list as fully selected, the result
\* has ignored = False and partial = False.
C8_ParentSelectedMeansFullySynced ==
    (/\ IsDirectoryInfo(last)
     /\ ~last.hit
     /\ \E anc \in Ancestors(last.fn) : FullySelected(ignoreSelectiveList, anc))
        => (~last.value.local.ignored /\ ~last.value.local.partial)

\* C10: no result of getFileInfoExtended for a directory has partial = True
\* with ignored = True, and no node that extendFileInfo gives the syncstate
\* 'partial' has ignored = True.
C10_PartialIsNotIgnored ==
    /\ IsDirectoryInfo(last)
           => (last.value.local.partial => ~last.value.local.ignored)
    /\ \A k \in DOMAIN fileInfoCache :
           (fileInfoCache[k].has /\ DOMAIN fileInfoCache[k].val # {}
               /\ "partial" \in DOMAIN fileInfoCache[k].val.local)
           => (fileInfoCache[k].val.local.partial
                   => ~fileInfoCache[k].val.local.ignored)
    /\ last.op = "extendFileInfo"
           => \A i \in 1..Len(last.nodes) :
                  ("syncstate" \in DOMAIN last.nodes[i]
                      /\ last.nodes[i].syncstate = "partial")
                  => ~last.nodes[i].ignored

\* extendFileInfo gave a directory the syncstate 'partial' from a result of
\* getFileInfoExtended whose own entry '!/' + fn is not on the list
C10_Witness ==
    /\ last.op = "extendFileInfo"
    /\ last.kind = "return"
    /\ ~Contains(ignoreSelectiveList, Selected(JoinPath(last.fn, <<"b">>)))
    /\ \E i \in 1..Len(last.nodes) :
           /\ "syncstate" \in DOMAIN last.nodes[i]
           /\ last.nodes[i].syncstate = "partial"
           /\ last.nodes[i].name = <<"b">>

-----------------------------------------------------------------------------
(* SpecTree: a daemon before 1.14.0 whose index is any tree of up to        *)
(* MaxTreeNodes entries; the client browses it, the daemon is upgraded to   *)
(* 1.14.0 or later, the client reads the version and browses again          *)

MaxTreeNodes == 3

TreeNames == {<<"a">>, <<"b">>}

\* the forests of exactly n entries
RECURSIVE ForestsOf(_)
ForestsOf(n) ==
    IF n = 0 THEN {<<>>}
    ELSE UNION {
             {<<e>> \o rest :
                 e \in (IF k = 1 THEN {File(nm) : nm \in TreeNames} ELSE {})
                       \cup {Dir(nm, c) : nm \in TreeNames, c \in ForestsOf(k - 1)},
                 rest \in ForestsOf(n - k)} : k \in 1..n}

\* the names of a directory are the keys of a mapping: no two alike
RECURSIVE DistinctNames(_)
DistinctNames(t) ==
    /\ \A i, j \in 1..Len(t) : i # j => t[i].name # t[j].name
    /\ \A i \in 1..Len(t) : DistinctNames(t[i].children)

Trees == {t \in UNION {ForestsOf(n) : n \in 0..MaxTreeNodes} : DistinctNames(t)}

OldVersions == {V0_14_52, V1_13_1}
NewVersions == {V1_14_0, V1_20_4}

\* browseFolder, its result kept as normOld when a client below 1.14.0 was
\* served the nested map and as normNew when a client from 1.14.0 on was
\* served the node list
Call_browseFolderKept(fid) ==
    LET r == browseFolder(ignoreListCache, fid, 200, 200)
        old == api_version < verStr2Num(ThresholdVersion) /\ ~ServesList(daemonVersion)
        new == api_version >= verStr2Num(ThresholdVersion) /\ ServesList(daemonVersion)
    IN  /\ BrowseStep("browseFolder", fid, <<>>, r)
        /\ normOld' = IF r.out.kind = "return" /\ old THEN Entry(r.out.value)
                      ELSE normOld
        /\ normNew' = IF r.out.kind = "return" /\ new THEN Entry(r.out.value)
                      ELSE normNew

\* the daemon is replaced by a release that serves the node list
DaemonUpgrade ==
    /\ daemonVersion \in OldVersions
    /\ daemonVersion' \in NewVersions
    /\ UNCHANGED <<stored, tree, localDb, api_version, ignoreSelectiveList,
                   ignoreListCache, fileInfoCache, last, histVars>>

InitTree ==
    /\ stored = [f \in Folders |->
                    IF f = "f1" THEN Lines(<<headerSelectStart, headerSelectFinish>>)
                    ELSE Null]
    /\ daemonVersion \in OldVersions
    /\ tree \in Trees
    /\ localDb = LocalInSync
    /\ ClientInit

NextTree ==
    \/ Call_getVersion(200)
    \/ Call_browseFolderKept("f1")
    \/ DaemonUpgrade

SpecTree == InitTree /\ [][NextTree]_vars

\* the same names and types in the same order, and children on the same
\* nodes, alike in turn
RECURSIVE Equivalent(_, _)
Equivalent(o, n) ==
    /\ Len(o) = Len(n)
    /\ \A i \in 1..Len(o) :
           /\ o[i].name = n[i].name
           /\ o[i].type = n[i].type
           /\ ("children" \in DOMAIN o[i]) = ("children" \in DOMAIN n[i])
           /\ "children" \in DOMAIN o[i] => Equivalent(o[i].children, n[i].children)

-----------------------------------------------------------------------------
(* SpecSizes: extendDirSizes applied to any node list of up to MaxNodes     *)
(* nodes                                                                    *)

MaxNodes == 3

\* the nodes without children of their own: no 'type', a file with and
\* without 'size', a directory without 'children' (newlocal or not)
LeafNodes ==
    {[name |-> "n"],
     [name |-> "n", type |-> TypeFile, size |-> 1],
     [name |-> "n", type |-> TypeFile],
     [name |-> "n", type |-> TypeDirectory, size |-> 128],
     [name |-> "n", type |-> TypeDirectory, size |-> 128, syncstate |-> "newlocal"]}

DirNode(c, ss) ==
    IF ss = "" THEN [name |-> "n", type |-> TypeDirectory, size |-> 128, children |-> c]
    ELSE [name |-> "n", type |-> TypeDirectory, size |-> 128, children |-> c,
          syncstate |-> ss]

DirSyncStates == {"", "newlocal", "syncing"}

\* the node lists of exactly n nodes
RECURSIVE NodeListsOf(_)
NodeListsOf(n) ==
    IF n = 0 THEN {<<>>}
    ELSE UNION {
             {<<e>> \o rest :
                 e \in (IF k = 1 THEN LeafNodes ELSE {})
                       \cup {DirNode(c, ss) : c \in NodeListsOf(k - 1),
                                              ss \in DirSyncStates},
                 rest \in NodeListsOf(n - k)} : k \in 1..n}

NodeLists == UNION {NodeListsOf(n) : n \in 0..MaxNodes}

\* lines 296-319 with line 311 left out: a directory without 'children'
\* leaves completed as it is
RECURSIVE SizesLoop_ChildlessComplete(_, _, _)
SizesLoop_ChildlessComplete(l, i, acc) ==
    IF i > Len(l) THEN acc
    ELSE LET item == l[i]
             isdir == item.type = TypeDirectory
         IN  IF "type" \notin DOMAIN item
             THEN SizesLoop_ChildlessComplete(l, i + 1, [acc EXCEPT !.completed = FALSE])
             ELSE IF isdir /\ "syncstate" \in DOMAIN item /\ item.syncstate = "newlocal"
             THEN SizesLoop_ChildlessComplete(l, i + 1, acc)
             ELSE LET it1 == IF isdir THEN Put(item, "size", 0) ELSE item
                      sub == SizesLoop_ChildlessComplete(item.children, 1,
                                 [size |-> 0, completed |-> TRUE, l |-> item.children])
                      it2 == IF isdir /\ "children" \in DOMAIN item
                             THEN Put(Put(it1, "children", sub.l), "extSize",
                                      [value |-> sub.size, completed |-> sub.completed])
                             ELSE it1
                      c1 == acc.completed
                      nl == [acc.l EXCEPT ![i] = it2]
                  IN  SizesLoop_ChildlessComplete(l, i + 1,
                          IF "size" \in DOMAIN it2
                          THEN IF "extSize" \in DOMAIN it2
                               THEN [size |-> acc.size + it2.extSize.value,
                                     completed |-> c1 /\ it2.extSize.completed,
                                     l |-> nl]
                               ELSE [size |-> acc.size + it2.size, completed |-> c1,
                                     l |-> nl]
                          ELSE [size |-> acc.size, completed |-> FALSE, l |-> nl])

\* lines 296-319: the loop of extendDirSizes over l from item i on;
\* acc = [size, completed, l], l with the items as the loop leaves them
RECURSIVE SizesLoop(_, _, _)
SizesLoop(l, i, acc) ==
    IF i > Len(l) THEN acc
    ELSE LET item == l[i]
             isdir == item.type = TypeDirectory
         IN  IF "type" \notin DOMAIN item
             THEN SizesLoop(l, i + 1, [acc EXCEPT !.completed = FALSE])
             ELSE IF isdir /\ "syncstate" \in DOMAIN item /\ item.syncstate = "newlocal"
             THEN SizesLoop(l, i + 1, acc)
             ELSE LET it1 == IF isdir THEN Put(item, "size", 0) ELSE item
                      sub == SizesLoop(item.children, 1,
                                 [size |-> 0, completed |-> TRUE, l |-> item.children])
                      it2 == IF isdir /\ "children" \in DOMAIN item
                             THEN Put(Put(it1, "children", sub.l), "extSize",
                                      [value |-> sub.size, completed |-> sub.completed])
                             ELSE it1
                      c1 == IF isdir /\ "children" \notin DOMAIN item THEN FALSE
                            ELSE acc.completed
                      nl == [acc.l EXCEPT ![i] = it2]
                  IN  SizesLoop(l, i + 1,
                          IF "size" \in DOMAIN it2
                          THEN IF "extSize" \in DOMAIN it2
                               THEN [size |-> acc.size + it2.extSize.value,
                                     completed |->
                                         c1 /\ (IF "completed" \in DOMAIN it2.extSize
                                                THEN it2.extSize.completed ELSE TRUE),
                                     l |-> nl]
                               ELSE [size |-> acc.size + it2.size, completed |-> c1,
                                     l |-> nl]
                          ELSE [size |-> acc.size, completed |-> FALSE, l |-> nl])

\* extendDirSizes(l): the dict it returns, and l as it leaves it
extendDirSizes(l) ==
    LET r == SizesLoop(l, 1, [size |-> 0, completed |-> TRUE, l |-> l])
    IN  [value |-> r.size, completed |-> r.completed, l |-> r.l]

Call_extendDirSizes ==
    /\ ~items.done
    /\ LET r == extendDirSizes(items.l)
       IN  items' = [items EXCEPT !.done = TRUE, !.value = r.value,
                                  !.completed = r.completed, !.sized = r.l]
    /\ UNCHANGED <<stored, daemonVars, api_version, ignoreSelectiveList,
                   ignoreListCache, fileInfoCache, last, cleared, normOld, normNew>>

InitSizes ==
    /\ stored = [f \in Folders |-> Null]
    /\ daemonVersion = V1_14_0
    /\ tree = FolderTree
    /\ localDb = LocalInSync
    /\ api_version = 0
    /\ ignoreSelectiveList = <<>>
    /\ ignoreListCache = EmptyIgnoreListCache
    /\ fileInfoCache = EmptyFileInfoCache
    /\ last = NoCall
    /\ cleared = FALSE
    /\ normOld = NoResult
    /\ normNew = NoResult
    /\ \E l \in NodeLists : items = [NoItems EXCEPT !.l = l]

NextSizes == Call_extendDirSizes

SpecSizes == InitSizes /\ [][NextSizes]_vars

IsNewLocalDir(item) ==
    /\ "type" \in DOMAIN item
    /\ item.type = TypeDirectory
    /\ "syncstate" \in DOMAIN item
    /\ item.syncstate = "newlocal"

\* no node of l, at any depth and whatever its syncstate, lacks size data
RECURSIVE AllResolved(_)
AllResolved(l) ==
    \A i \in 1..Len(l) :
        /\ "type" \in DOMAIN l[i]
        /\ IF l[i].type = TypeDirectory
           THEN "children" \in DOMAIN l[i] /\ AllResolved(l[i].children)
           ELSE "size" \in DOMAIN l[i]

\* no node of l lacks size data, the directories in state newlocal and what
\* is below them left aside
RECURSIVE AllResolvedButNewLocal(_)
AllResolvedButNewLocal(l) ==
    \A i \in 1..Len(l) :
        /\ "type" \in DOMAIN l[i]
        /\ IF IsNewLocalDir(l[i]) THEN TRUE
           ELSE IF l[i].type = TypeDirectory
           THEN "children" \in DOMAIN l[i] /\ AllResolvedButNewLocal(l[i].children)
           ELSE "size" \in DOMAIN l[i]

\* the flag of a node of the list extendDirSizes has left: a directory's is
\* the 'completed' of its extSize
NodeFlag(item) ==
    /\ "type" \in DOMAIN item
    /\ IF IsNewLocalDir(item) THEN TRUE
       ELSE IF item.type = TypeDirectory
       THEN "extSize" \in DOMAIN item /\ item.extSize.completed
       ELSE "size" \in DOMAIN item

\* every directory that was given an extSize has for flag the conjunction of
\* the flags of its children
RECURSIVE FlagsAreConjunctions(_)
FlagsAreConjunctions(l) ==
    \A i \in 1..Len(l) :
        ("extSize" \in DOMAIN l[i])
            => /\ l[i].extSize.completed
                   = (\A j \in 1..Len(l[i].children) : NodeFlag(l[i].children[j]))
               /\ FlagsAreConjunctions(l[i].children)

\* C5 as stated: completed is true only if no node at any depth, whatever its
\* syncstate, lacks size data.
C5_CompletedMeansAllResolved ==
    items.done => (items.completed => AllResolved(items.l))

\* C5, directories in state newlocal left aside: completed is true exactly
\* when no node outside the directories in state newlocal lacks size data,
\* and a directory's flag is the conjunction of its children's flags.
C5_CompletedButNewLocal ==
    items.done
        => /\ items.completed = AllResolvedButNewLocal(items.l)
           /\ FlagsAreConjunctions(items.sized)

\* a list with a node two levels down that lacks size data was sized
C5_Witness ==
    /\ items.done
    /\ ~items.completed
    /\ \E i \in 1..Len(items.l) :
           /\ "children" \in DOMAIN items.l[i]
           /\ ~IsNewLocalDir(items.l[i])
           /\ \E j \in 1..Len(items.l[i].children) :
                  /\ "children" \in DOMAIN items.l[i].children[j]
                  /\ ~IsNewLocalDir(items.l[i].children[j])
                  /\ ~AllResolved(items.l[i].children[j].children)

====
